---- MODULE Spec2Model ----
(***************************************************************************)
(* Model of the nVidia / Claymore Prometheus exporter                      *)
(* (17.04-375.66/resources/usr/local/bin/monitor.py).                      *)
(*                                                                         *)
(* Two collectors are registered in the process-wide REGISTRY and share    *)
(* ONE labels dict: NVMLCollector and ClaymoreCollector.  A registry pass  *)
(* (gather) runs both generators in registration order.  Passes are        *)
(* started by the main loop (push_to_gateway) and, when the HTTP listener  *)
(* is enabled, by the listener's thread (scrape).                          *)
(* resources/NVMLCollector.py holds the same device collector (same        *)
(* families in the same order inside one try) for the wrapper entrypoint.  *)
(*                                                                         *)
(* Text received from the worker is a sequence of one-character strings,   *)
(* so that str.split and float() are computed, not assumed.  A Python dict *)
(* is a sequence of <<key, value>> pairs: keys() and values() enumerate it *)
(* in the same order, a new key takes the next free place.  Statements     *)
(* that touch only thread-local data are merged into the next access of    *)
(* the shared labels dict.                                                 *)
(***************************************************************************)
EXTENDS Integers, Sequences, FiniteSets, TLC

VARIABLES
    mainpc,     \* position of main(): "init", "loop", "push", "sleep", "except",
                \* "finally", "return", "traceback", "exit" ("off": not this program)
    gateway,    \* args.gateway is set
    port,       \* args.port
    nvml,       \* hardware binding: "uninit", "init", "shutdown"
    device,     \* what the hardware queries of device 0 read
    flaky,      \* the hardware queries that can fail in this run
    worker,     \* the kind of worker of this run (see WorkerExchanges)
    httpd,      \* the HTTP listener thread is serving
    registered, \* REGISTRY: collectors in registration order
    labels,     \* the labels dict handed to both collectors
    pc,         \* per gather thread: position inside REGISTRY.collect()
    keys,       \* per gather thread: label names of the metric family under construction
    stat,       \* per gather thread: ClaymoreCollector.collect's stat
    xchg,       \* per gather thread: what the worker exchange of this pass met
    sock,       \* per gather thread: getAPIStat's socket s is open
    out,        \* per gather thread: metric families yielded in this pass
    hwfailed,   \* per gather thread: hardware queries that failed in this pass
    exc,        \* per gather thread: exception that left the pass ("none" if none)
    delivery,   \* outcome of the last push delivery: "none", "ok", "failed"
    exitcode,   \* exit status of the process, -1 while it runs
    scrapes,    \* scrape requests the listener has taken (capped, see MaxScrapes)
    update_period, \* args.update_period as the argument parser leaves it
    signal,     \* the signal the process has received ("none" if none)
    wpc,        \* docker-entrypoint.py: position of main() in the parent ("off": not this program)
    cpc,        \* docker-entrypoint.py: position of the forked collector child ("none": no child)
    metadata,   \* docker-entrypoint.py: main's metadata
    limit,      \* docker-entrypoint.py: power limit handed to the binding, in mW (0: none)
    launched,   \* docker-entrypoint.py: the processes that called Miner.launch, in order
    werr        \* docker-entrypoint.py: the exception the parent's try caught ("none" if none)

\* The state of the wrapper entrypoint.
entrypoint == << wpc, cpc, metadata, limit, launched, werr >>

vars == << mainpc, gateway, port, nvml, device, flaky, worker, httpd, registered, labels, pc, keys,
           stat, xchg, sock, out, hwfailed, exc, delivery, exitcode, scrapes, update_period,
           signal, wpc, cpc, metadata, limit, launched, werr >>

\* Scrape requests served in one run.
MaxScrapes == 1

\* The main thread (tick loop) and the HTTP listener's thread.
Threads == {"tick", "scrape"}

----------------------------------------------------------------------------
(* Text and conversions                                                    *)

DigitChars == <<"0", "1", "2", "3", "4", "5", "6", "7", "8", "9">>

IsDigit(c) == \E i \in 1..10 : DigitChars[i] = c

DigitVal(c) == (CHOOSE i \in 1..10 : DigitChars[i] = c) - 1

RECURSIVE DecVal(_)
DecVal(s) ==
    IF s = <<>> THEN 0
    ELSE DecVal(SubSeq(s, 1, Len(s) - 1)) * 10 + DigitVal(s[Len(s)])

\* float(s) on the decimal ASCII the worker sends: a value, or ValueError.
FloatOk(s) == Len(s) > 0 /\ \A i \in 1..Len(s) : IsDigit(s[i])

Float(s) == [num |-> DecVal(s), den |-> 1]

\* Index of the first ';' of s, 0 if there is none.
FindSep(s) ==
    IF \E i \in 1..Len(s) : s[i] = ";"
    THEN CHOOSE i \in 1..Len(s) : s[i] = ";" /\ \A j \in 1..(i - 1) : s[j] # ";"
    ELSE 0

\* s.split(';', maxsplit)
RECURSIVE Split(_, _)
Split(s, maxsplit) ==
    IF maxsplit = 0 \/ FindSep(s) = 0 THEN << s >>
    ELSE << SubSeq(s, 1, FindSep(s) - 1) >>
         \o Split(SubSeq(s, FindSep(s) + 1, Len(s)), maxsplit - 1)

----------------------------------------------------------------------------
(* The labels dict                                                         *)

DictKeys(d) == [i \in 1..Len(d) |-> d[i][1]]

DictValues(d) == [i \in 1..Len(d) |-> d[i][2]]

DictHas(d, k) == \E i \in 1..Len(d) : d[i][1] = k

\* d[k] = v
DictSet(d, k, v) ==
    IF DictHas(d, k)
    THEN [i \in 1..Len(d) |-> IF d[i][1] = k THEN << k, v >> ELSE d[i]]
    ELSE Append(d, << k, v >>)

\* nvmlDeviceGetUUID / nvmlDeviceGetPciInfo(...).busId of device 0
GpuUuid == <<"G", "P", "U", "-", "1">>
PciBusId == <<"0", "1", ":", "0", "0", ".", "0">>

IdentityLabels == << <<"gpu_uuid", GpuUuid>>, <<"pci_bus_id", PciBusId>> >>

----------------------------------------------------------------------------
(* What the worker can answer                                              *)

\* The status record of the comment at ClaymoreCollector (monitor.py:109).
ResultA ==
    << <<"9", ".", "8", " ", "-", " ", "E", "T", "H">>,
       <<"9", "4", "9">>,
       <<"2", "6", "6", "4", "2", ";", "3", "2", "8", ";", "0">>,
       <<"2", "6", "6", "4", "2">>,
       <<"0", ";", "0", ";", "0">>,
       <<"o", "f", "f">>,
       <<"6", "4", ";", "4", "8">>,
       <<"e", "u", "1", ".", "e", "t", "h", "e", "r", "m", "i", "n", "e", ".",
         "o", "r", "g", ":", "4", "4", "4", "4">>,
       <<"0", ";", "0", ";", "0", ";", "0">> >>

\* A later record of another worker build: other version, two pools, other counts.
ResultB ==
    << <<"1", "0", ".", "0">>,
       <<"9", "5", "0">>,
       <<"3", "0", "0", "0", "0", ";", "3", "2", "9", ";", "1">>,
       <<"3", "0", "0", "0", "0">>,
       <<"0", ";", "0", ";", "0">>,
       <<"o", "f", "f">>,
       <<"6", "5", ";", "5", "0">>,
       <<"u", "s", "1", ":", "4", "4", "4", "4", ";", "d", "c", "r", ":", "3", "2", "5", "2">>,
       <<"1", ";", "2", ";", "0", ";", "0">> >>

ResultC ==
    << <<"1", "1", ".", "0">>,
       <<"7">>,
       <<"4", "5", ";", "1", ";", "2">>,
       <<"4", "5">>,
       <<"0", ";", "0", ";", "0">>,
       <<"o", "f", "f">>,
       <<"7", "0", ";", "9", "9">>,
       <<"a", "s", "1", ":", "1">>,
       <<"3", ";", "4", ";", "0", ";", "0">> >>

Records == << ResultA, ResultB, ResultC >>

\* Number of distinct well-formed status records the worker reports.
NumRecords == 2

WellFormedResults == {Records[n] : n \in 1..NumRecords}

NotANumber == <<"n", "/", "a">>

\* r with part k of the ';'-packed field at index idx (0-based) replaced by text.
RECURSIVE Join(_)
Join(parts) ==
    IF Len(parts) = 1 THEN parts[1]
    ELSE parts[1] \o <<";">> \o Join(Tail(parts))

WithPart(r, idx, k, text) ==
    [r EXCEPT ![idx + 1] = Join([Split(r[idx + 1], Len(r[idx + 1])) EXCEPT ![k] = text])]

\* The numeric sub-fields: <<index, part>>.
NumericParts == {<<1, 1>>, <<2, 1>>, <<2, 2>>, <<2, 3>>, <<6, 1>>, <<6, 2>>, <<8, 1>>, <<8, 2>>}

NonNumericResults == {WithPart(ResultA, p[1], p[2], NotANumber) : p \in NumericParts}

\* Result arrays with fewer than 9 elements (the empty one included).
ShortResults == {SubSeq(ResultA, 1, n) : n \in 0..8}

\* Nine elements, but a packed field with one part too many (a second GPU's temp;fan).
MispackedResults ==
    {[ResultA EXCEPT ![7] = <<"6", "4", ";", "4", "8", ";", "7", "0", ";", "5", "0">>]}

Results == WellFormedResults \cup NonNumericResults \cup ShortResults \cup MispackedResults

\* What one exchange meets: how the connection goes and, if bytes arrive,
\* what they are (kind), and for a JSON object whether it has 'result'.
SocketErrors == {"refused", "unreachable", "senderror", "recverror"}

NoExchange == [conn |-> "-", kind |-> "-", hasResult |-> FALSE, result |-> <<>>]

Exchanges ==
    {[conn |-> e, kind |-> "-", hasResult |-> FALSE, result |-> <<>>] : e \in SocketErrors}
    \cup {[conn |-> "ok", kind |-> k, hasResult |-> FALSE, result |-> <<>>] :
            k \in {"empty", "nonjson", "truncated", "null", "object"}}
    \cup {[conn |-> "ok", kind |-> "object", hasResult |-> TRUE, result |-> r] : r \in Results}

\* getAPIStat with the socket.error of a failed connection left uncaught.
getAPIStat_uncaught(x) ==
    IF x.conn # "ok"
    THEN [raised |-> "socket.error", none |-> FALSE, ret |-> <<>>]
    ELSE IF x.kind \in {"empty", "nonjson", "truncated"}
    THEN [raised |-> "ValueError", none |-> FALSE, ret |-> <<>>]
    ELSE IF x.kind = "null"
    THEN [raised |-> "TypeError", none |-> FALSE, ret |-> <<>>]
    ELSE IF ~x.hasResult
    THEN [raised |-> "KeyError", none |-> FALSE, ret |-> <<>>]
    ELSE [raised |-> "none", none |-> FALSE, ret |-> x.result]

\* json.loads(response) followed by stat['result'], inside getAPIStat.
\* ret is None (none = TRUE) or the result array; raised names the exception
\* that leaves getAPIStat.  The socket is closed by the finally in every case.
getAPIStat(x) ==
    IF x.conn # "ok"
    THEN [raised |-> "none", none |-> TRUE, ret |-> <<>>]
    ELSE IF x.kind \in {"empty", "nonjson", "truncated"}
    THEN [raised |-> "ValueError", none |-> FALSE, ret |-> <<>>]
    ELSE IF x.kind = "null"
    THEN [raised |-> "TypeError", none |-> FALSE, ret |-> <<>>]
    ELSE IF ~x.hasResult
    THEN [raised |-> "KeyError", none |-> FALSE, ret |-> <<>>]
    ELSE [raised |-> "none", none |-> FALSE, ret |-> x.result]

----------------------------------------------------------------------------
(* The collectors' metric families                                         *)

\* NVMLCollector.collect, in yield order.  query is the binding call the
\* family needs; at says where it runs: "add" inside the add_metric
\* arguments (after labels.values()), "keys" before the family is built,
\* "none" when the value comes from the previous call (mem_info).
NvmlMetrics ==
    << [name |-> "nvml_clock_gpu_hz",       query |-> "clock_graphics", at |-> "add"],
       [name |-> "nvml_clock_mem_hz",       query |-> "clock_mem",      at |-> "add"],
       [name |-> "nvml_gpu_temperature_c",  query |-> "temperature",    at |-> "add"],
       [name |-> "nvml_fan_speed_percent",  query |-> "fan_speed",      at |-> "add"],
       [name |-> "nvml_power_draw_watt",    query |-> "power_usage",    at |-> "add"],
       [name |-> "nvml_power_state",        query |-> "power_state",    at |-> "add"],
       [name |-> "nvml_memory_total_bytes", query |-> "memory_info",    at |-> "keys"],
       [name |-> "nvml_memory_used_bytes",  query |-> "memory_info",    at |-> "none"] >>

Queries == {NvmlMetrics[i].query : i \in 1..Len(NvmlMetrics)}

\* Readings of two boards: clocks in MHz, power in milliwatts, memory in bytes.
Devices ==
    { [clock_graphics |-> 1500, clock_mem |-> 2000, temperature |-> 64, fan_speed |-> 48,
       power_usage |-> 123456, power_state |-> 2, mem_total |-> 8192, mem_used |-> 1024],
      [clock_graphics |-> 139, clock_mem |-> 405, temperature |-> 31, fan_speed |-> 0,
       power_usage |-> 9500, power_state |-> 8, mem_total |-> 4096, mem_used |-> 0] }

\* The values with the power reading handed on as it is read, in milliwatts.
NvmlValue_milliwatt(i, dev) ==
    CASE i = 1 -> [num |-> dev.clock_graphics * 1000000, den |-> 1]
      [] i = 2 -> [num |-> dev.clock_mem * 1000000, den |-> 1]
      [] i = 3 -> [num |-> dev.temperature, den |-> 1]
      [] i = 4 -> [num |-> dev.fan_speed, den |-> 1]
      [] i = 5 -> [num |-> dev.power_usage, den |-> 1]
      [] i = 6 -> [num |-> dev.power_state, den |-> 1]
      [] i = 7 -> [num |-> dev.mem_total, den |-> 1]
      [] i = 8 -> [num |-> dev.mem_used, den |-> 1]

\* The value NVMLCollector.collect hands to add_metric for family i.
NvmlValue(i, dev) ==
    CASE i = 1 -> [num |-> dev.clock_graphics * 1000000, den |-> 1]
      [] i = 2 -> [num |-> dev.clock_mem * 1000000, den |-> 1]
      [] i = 3 -> [num |-> dev.temperature, den |-> 1]
      [] i = 4 -> [num |-> dev.fan_speed, den |-> 1]
      [] i = 5 -> [num |-> dev.power_usage, den |-> 1000]
      [] i = 6 -> [num |-> dev.power_state, den |-> 1]
      [] i = 7 -> [num |-> dev.mem_total, den |-> 1]
      [] i = 8 -> [num |-> dev.mem_used, den |-> 1]

\* Indices into the result array (0-based, as in the source).
CLAYMORE_API_RESULT_VERSION == 0
CLAYMORE_API_RESULT_UPTIME == 1
CLAYMORE_API_RESULT_ETH_SHARES_TOTAL == 2
CLAYMORE_API_RESULT_TEMP_FAN == 6
CLAYMORE_API_RESULT_POOLS == 7
CLAYMORE_API_RESULT_EVENTS == 8

\* ClaymoreMetrics with the accepted and the rejected shares taken from each
\* other's part of the eth-shares field.
ClaymoreMetrics_swapped ==
    << [name |-> "claymore_uptime_minutes", kind |-> "counter",
        idx |-> CLAYMORE_API_RESULT_UPTIME, maxsplit |-> 0, parts |-> 1, part |-> 1, unpack |-> FALSE],
       [name |-> "claymore_eth_shares_invalid", kind |-> "counter",
        idx |-> CLAYMORE_API_RESULT_EVENTS, maxsplit |-> 4, parts |-> 4, part |-> 1, unpack |-> TRUE],
       [name |-> "claymore_eth_pool_switches", kind |-> "counter",
        idx |-> CLAYMORE_API_RESULT_EVENTS, maxsplit |-> 4, parts |-> 4, part |-> 2, unpack |-> FALSE],
       [name |-> "claymore_eth_shares_accepted", kind |-> "counter",
        idx |-> CLAYMORE_API_RESULT_ETH_SHARES_TOTAL, maxsplit |-> 3, parts |-> 3, part |-> 3, unpack |-> TRUE],
       [name |-> "claymore_eth_shares_rejected", kind |-> "counter",
        idx |-> CLAYMORE_API_RESULT_ETH_SHARES_TOTAL, maxsplit |-> 3, parts |-> 3, part |-> 2, unpack |-> FALSE],
       [name |-> "claymore_eth_hashrate_total_mhs", kind |-> "gauge",
        idx |-> CLAYMORE_API_RESULT_ETH_SHARES_TOTAL, maxsplit |-> 3, parts |-> 3, part |-> 1, unpack |-> FALSE],
       [name |-> "claymore_gpu_temperature_c", kind |-> "gauge",
        idx |-> CLAYMORE_API_RESULT_TEMP_FAN, maxsplit |-> 2, parts |-> 2, part |-> 1, unpack |-> TRUE],
       [name |-> "claymore_fan_speed_percent", kind |-> "gauge",
        idx |-> CLAYMORE_API_RESULT_TEMP_FAN, maxsplit |-> 2, parts |-> 2, part |-> 2, unpack |-> FALSE] >>

\* ClaymoreCollector.collect, in yield order.  The value of a family is
\* float() of part `part` of stat[idx].split(';', maxsplit); unpack = TRUE
\* marks the family in front of which the split is unpacked into exactly
\* `parts` names (maxsplit 0: the element itself, not split).
ClaymoreMetrics ==
    << [name |-> "claymore_uptime_minutes", kind |-> "counter",
        idx |-> CLAYMORE_API_RESULT_UPTIME, maxsplit |-> 0, parts |-> 1, part |-> 1, unpack |-> FALSE],
       [name |-> "claymore_eth_shares_invalid", kind |-> "counter",
        idx |-> CLAYMORE_API_RESULT_EVENTS, maxsplit |-> 4, parts |-> 4, part |-> 1, unpack |-> TRUE],
       [name |-> "claymore_eth_pool_switches", kind |-> "counter",
        idx |-> CLAYMORE_API_RESULT_EVENTS, maxsplit |-> 4, parts |-> 4, part |-> 2, unpack |-> FALSE],
       [name |-> "claymore_eth_shares_accepted", kind |-> "counter",
        idx |-> CLAYMORE_API_RESULT_ETH_SHARES_TOTAL, maxsplit |-> 3, parts |-> 3, part |-> 2, unpack |-> TRUE],
       [name |-> "claymore_eth_shares_rejected", kind |-> "counter",
        idx |-> CLAYMORE_API_RESULT_ETH_SHARES_TOTAL, maxsplit |-> 3, parts |-> 3, part |-> 3, unpack |-> FALSE],
       [name |-> "claymore_eth_hashrate_total_mhs", kind |-> "gauge",
        idx |-> CLAYMORE_API_RESULT_ETH_SHARES_TOTAL, maxsplit |-> 3, parts |-> 3, part |-> 1, unpack |-> FALSE],
       [name |-> "claymore_gpu_temperature_c", kind |-> "gauge",
        idx |-> CLAYMORE_API_RESULT_TEMP_FAN, maxsplit |-> 2, parts |-> 2, part |-> 1, unpack |-> TRUE],
       [name |-> "claymore_fan_speed_percent", kind |-> "gauge",
        idx |-> CLAYMORE_API_RESULT_TEMP_FAN, maxsplit |-> 2, parts |-> 2, part |-> 2, unpack |-> FALSE] >>

\* stat[idx].split(';', maxsplit) of family m
ClaymoreSplit(st, m) == Split(st[m.idx + 1], m.maxsplit)

\* The statements in front of family m succeed: the element exists and the
\* split unpacks into the names on the left.
ClaymoreUnpackOk(st, m) ==
    Len(st) > m.idx /\ Len(ClaymoreSplit(st, m)) = m.parts

\* The text family m converts with float().
ClaymoreText(st, m) == ClaymoreSplit(st, m)[m.part]

\* One metric family with its single sample, as add_metric receives it.
Family(name, kind, labelnames, labelvalues, value) ==
    [name |-> name, kind |-> kind, labelnames |-> labelnames,
     labelvalues |-> labelvalues, value |-> value]

----------------------------------------------------------------------------
(* A registry pass: REGISTRY.collect() runs the collectors in order        *)

At(c, i) == [c |-> c, i |-> i]

\* Where collector number n of the registry starts; past the last one the pass is done.
CollectorEntry(n) ==
    IF n > Len(registered) THEN At("done", 0)
    ELSE IF registered[n] = "NVMLCollector" THEN At("nvml_keys", 1)
    ELSE At("api", 0)

\* Where the pass goes when the generator of collector `name` ends.
AfterCollector(name) ==
    CollectorEntry((CHOOSE n \in 1..Len(registered) : registered[n] = name) + 1)

\* Thread t is executing: the main thread inside push_to_gateway, the
\* listener's thread as long as the process lives.
Running(t) == IF t = "tick" THEN mainpc = "push" ELSE httpd

Answer(r) == [conn |-> "ok", kind |-> "object", hasResult |-> TRUE, result |-> r]

Refused == [conn |-> "refused", kind |-> "-", hasResult |-> FALSE, result |-> <<>>]

\* The ways an exchange with a worker of the given kind can end.
WorkerExchanges(w) ==
    CASE w = "any"        -> Exchanges
      [] w = "restarting" -> {Refused, Answer(ResultA)}

\* A new pass of thread t.
StartPass(t) ==
    /\ pc' = [pc EXCEPT ![t] = CollectorEntry(1)]
    /\ UNCHANGED << keys, stat, xchg, sock, out, hwfailed, exc >>

\* The pass of thread t is over and what it gathered is dropped.
EndPass(t) ==
    /\ pc' = [pc EXCEPT ![t] = At("idle", 0)]
    /\ keys' = [keys EXCEPT ![t] = <<>>]
    /\ stat' = [stat EXCEPT ![t] = <<>>]
    /\ xchg' = [xchg EXCEPT ![t] = NoExchange]
    /\ out' = [out EXCEPT ![t] = <<>>]
    /\ UNCHANGED sock
    /\ hwfailed' = [hwfailed EXCEPT ![t] = {}]
    /\ exc' = [exc EXCEPT ![t] = "none"]

\* Exception e leaves the generator, REGISTRY.collect() and the pass of t.
\* In the main thread it reaches the except clause of main(); in the
\* listener's thread the request handler fails and the thread goes on.
Raise(t, e) ==
    /\ pc' = [pc EXCEPT ![t] = At("raised", 0)]
    /\ exc' = [exc EXCEPT ![t] = e]
    /\ mainpc' = IF t = "tick" THEN "except" ELSE mainpc

\* NVMLCollector.collect without its try: the NVMLError of the query
\* leaves the generator and the registry pass.
NvmlQueryFails_uncaught(t, q) ==
    /\ hwfailed' = [hwfailed EXCEPT ![t] = @ \cup {q}]
    /\ pc' = [pc EXCEPT ![t] = At("raised", 0)]
    /\ UNCHANGED << keys, out >>

\* The except clause of NVMLCollector.collect: the generator ends.
NvmlQueryFails(t, q) ==
    /\ hwfailed' = [hwfailed EXCEPT ![t] = @ \cup {q}]
    /\ pc' = [pc EXCEPT ![t] = AfterCollector("NVMLCollector")]
    /\ UNCHANGED << keys, out >>

\* GaugeMetricFamily(..., labels=self.labels.keys()) of family pc[t].i
NvmlKeys(t) ==
    /\ Running(t)
    /\ pc[t].c = "nvml_keys"
    /\ LET m == NvmlMetrics[pc[t].i] IN
         \/ /\ m.at = "keys"
            /\ m.query \in flaky \/ nvml # "init"
            /\ NvmlQueryFails(t, m.query)
         \/ /\ m.at # "keys" \/ nvml = "init"
            /\ keys' = [keys EXCEPT ![t] = DictKeys(labels)]
            /\ pc' = [pc EXCEPT ![t] = At("nvml_add", pc[t].i)]
            /\ UNCHANGED << hwfailed, out >>
    /\ UNCHANGED << mainpc, gateway, port, nvml, device, flaky, worker, update_period, signal, entrypoint, httpd, registered, labels,
                    stat, xchg, sock, exc, delivery, exitcode, scrapes >>

\* metric.add_metric(self.labels.values(), <query>) and the yield
NvmlAdd(t) ==
    /\ Running(t)
    /\ pc[t].c = "nvml_add"
    /\ LET i == pc[t].i
           m == NvmlMetrics[i] IN
         \/ /\ m.at = "add"
            /\ m.query \in flaky \/ nvml # "init"
            /\ NvmlQueryFails(t, m.query)
         \/ /\ m.at # "add" \/ nvml = "init"
            /\ out' = [out EXCEPT ![t] =
                         Append(@, Family(m.name, "gauge", keys[t], DictValues(labels),
                                          NvmlValue(i, device)))]
            /\ pc' = [pc EXCEPT ![t] = IF i < Len(NvmlMetrics)
                                        THEN At("nvml_keys", i + 1)
                                        ELSE AfterCollector("NVMLCollector")]
            /\ UNCHANGED << hwfailed, keys >>
    /\ UNCHANGED << mainpc, gateway, port, nvml, device, flaky, worker, update_period, signal, entrypoint, httpd, registered, labels,
                    stat, xchg, sock, exc, delivery, exitcode, scrapes >>

\* stat = self.getAPIStat() is entered: s = socket.socket(...)
ClaymoreSocket(t) ==
    /\ Running(t)
    /\ pc[t].c = "api"
    /\ sock' = [sock EXCEPT ![t] = TRUE]
    /\ pc' = [pc EXCEPT ![t] = At("exchange", 0)]
    /\ UNCHANGED << mainpc, gateway, port, nvml, device, flaky, worker, update_period, signal, entrypoint, httpd, registered, labels,
                    keys, stat, xchg, out, hwfailed, exc, delivery, exitcode, scrapes >>

\* The exchange with the except clause but without the finally: the socket
\* is closed only when the try block is left without an exception.
ClaymoreApi_noFinally(t) ==
    /\ Running(t)
    /\ pc[t].c = "exchange"
    /\ \E x \in WorkerExchanges(worker) :
         LET r == getAPIStat(x) IN
           /\ xchg' = [xchg EXCEPT ![t] = x]
           /\ stat' = [stat EXCEPT ![t] = r.ret]
           /\ sock' = [sock EXCEPT ![t] = (x.conn # "ok" \/ x.kind \in {"empty", "nonjson", "truncated"})]
           /\ IF r.raised # "none"
              THEN Raise(t, r.raised)
              ELSE /\ pc' = [pc EXCEPT ![t] =
                               IF r.none \/ r.ret = <<>>
                               THEN AfterCollector("ClaymoreCollector")
                               ELSE At("version", 0)]
                   /\ UNCHANGED << exc, mainpc >>
    /\ UNCHANGED << gateway, port, nvml, device, flaky, worker, update_period, signal, entrypoint, httpd, registered, labels, keys,
                    out, hwfailed, delivery, exitcode, scrapes >>

\* The rest of getAPIStat, and "if ( not stat ): return": connect, sendall,
\* recv and json.loads end in one of WorkerExchanges; the finally closes
\* the socket on every way out, before stat['result'] is evaluated and
\* before collect() goes on.
ClaymoreApi(t) ==
    /\ Running(t)
    /\ pc[t].c = "exchange"
    /\ \E x \in WorkerExchanges(worker) :
         LET r == getAPIStat(x) IN
           /\ xchg' = [xchg EXCEPT ![t] = x]
           /\ stat' = [stat EXCEPT ![t] = r.ret]
           /\ sock' = [sock EXCEPT ![t] = FALSE]
           /\ IF r.raised # "none"
              THEN Raise(t, r.raised)
              ELSE /\ pc' = [pc EXCEPT ![t] =
                               IF r.none \/ r.ret = <<>>
                               THEN AfterCollector("ClaymoreCollector")
                               ELSE At("version", 0)]
                   /\ UNCHANGED << exc, mainpc >>
    /\ UNCHANGED << gateway, port, nvml, device, flaky, worker, update_period, signal, entrypoint, httpd, registered, labels, keys,
                    out, hwfailed, delivery, exitcode, scrapes >>

\* What the exchange of a pass meets when the worker has accepted the
\* connection and sends nothing.
Silent == [conn |-> "silent", kind |-> "-", hasResult |-> FALSE, result |-> <<>>]

\* s.recv(10 * 1024) on a connection whose peer stays silent: the socket
\* has no timeout (none is set on s and there is no default timeout), so
\* recv does not return and no later step of this thread exists.
ClaymoreBlocks(t) ==
    /\ Running(t)
    /\ pc[t].c = "exchange"
    /\ xchg' = [xchg EXCEPT ![t] = Silent]
    /\ pc' = [pc EXCEPT ![t] = At("blocked", 0)]
    /\ UNCHANGED << mainpc, gateway, port, nvml, device, flaky, worker, update_period, signal, entrypoint, httpd, registered, labels,
                    keys, stat, sock, out, hwfailed, exc, delivery, exitcode, scrapes >>

\* self.labels['version'] = stat[CLAYMORE_API_RESULT_VERSION]
ClaymoreVersion(t) ==
    /\ Running(t)
    /\ pc[t].c = "version"
    /\ labels' = DictSet(labels, "version", stat[t][CLAYMORE_API_RESULT_VERSION + 1])
    /\ pc' = [pc EXCEPT ![t] = At("pool", 0)]
    /\ UNCHANGED << mainpc, gateway, port, nvml, device, flaky, worker, update_period, signal, entrypoint, httpd, registered, keys,
                    stat, xchg, sock, out, hwfailed, exc, delivery, exitcode, scrapes >>

\* pools_s = stat[CLAYMORE_API_RESULT_POOLS].split(';', 2)
\* self.labels['eth_pool_current'] = pools_s[0]
ClaymorePool(t) ==
    /\ Running(t)
    /\ pc[t].c = "pool"
    /\ IF Len(stat[t]) <= CLAYMORE_API_RESULT_POOLS
       THEN /\ pc' = [pc EXCEPT ![t] = AfterCollector("ClaymoreCollector")]
            /\ UNCHANGED labels
       ELSE /\ labels' = DictSet(labels, "eth_pool_current",
                                 Split(stat[t][CLAYMORE_API_RESULT_POOLS + 1], 2)[1])
            /\ pc' = [pc EXCEPT ![t] = At("clay_keys", 1)]
    /\ UNCHANGED << mainpc, gateway, port, nvml, device, flaky, worker, update_period, signal, entrypoint, httpd, registered, keys,
                    stat, xchg, sock, out, hwfailed, exc, delivery, exitcode, scrapes >>

\* the unpacking split in front of family pc[t].i, if any, and
\* XMetricFamily(..., labels=self.labels.keys())
ClaymoreKeys(t) ==
    /\ Running(t)
    /\ pc[t].c = "clay_keys"
    /\ LET m == ClaymoreMetrics[pc[t].i] IN
         IF m.unpack /\ ~ClaymoreUnpackOk(stat[t], m)
         THEN /\ pc' = [pc EXCEPT ![t] = AfterCollector("ClaymoreCollector")]
              /\ UNCHANGED keys
         ELSE /\ keys' = [keys EXCEPT ![t] = DictKeys(labels)]
              /\ pc' = [pc EXCEPT ![t] = At("clay_add", pc[t].i)]
    /\ UNCHANGED << mainpc, gateway, port, nvml, device, flaky, worker, update_period, signal, entrypoint, httpd, registered, labels,
                    stat, xchg, sock, out, hwfailed, exc, delivery, exitcode, scrapes >>

\* metric.add_metric(self.labels.values(), float(<text>)) and the yield
ClaymoreAdd(t) ==
    /\ Running(t)
    /\ pc[t].c = "clay_add"
    /\ LET i == pc[t].i
           m == ClaymoreMetrics[i] IN
         IF Len(stat[t]) <= m.idx \/ ~FloatOk(ClaymoreText(stat[t], m))
         THEN /\ pc' = [pc EXCEPT ![t] = AfterCollector("ClaymoreCollector")]
              /\ UNCHANGED out
         ELSE /\ out' = [out EXCEPT ![t] =
                           Append(@, Family(m.name, m.kind, keys[t], DictValues(labels),
                                            Float(ClaymoreText(stat[t], m))))]
              /\ pc' = [pc EXCEPT ![t] = IF i < Len(ClaymoreMetrics)
                                          THEN At("clay_keys", i + 1)
                                          ELSE AfterCollector("ClaymoreCollector")]
    /\ UNCHANGED << mainpc, gateway, port, nvml, device, flaky, worker, update_period, signal, entrypoint, httpd, registered, labels,
                    keys, stat, xchg, sock, hwfailed, exc, delivery, exitcode, scrapes >>

----------------------------------------------------------------------------
(* main()                                                                  *)

\* What follows -u / --update-period on the command line: nothing (the
\* option is absent), or a text.
UpdatePeriodArgs == { <<>>, <<"1", "0">> }

\* add_argument('-u', '--update-period', default=30) has no type=: the
\* default is the int 30, a supplied value stays the str it was typed as.
ParseUpdatePeriod(arg) ==
    IF arg = <<>>
    THEN [type |-> "int", text |-> <<"3", "0">>]
    ELSE [type |-> "str", text |-> arg]

\* time.sleep takes a number.
SleepAccepts(p) == p.type \in {"int", "float"}

\* docker-entrypoint.py: metadata before getHostMetadata() is called.
Unset == [fetched |-> FALSE, none |-> FALSE, hasLabels |-> FALSE, labels |-> <<>>]

\* nvmlInit ... REGISTRY.register ... start_http_server: everything succeeds.
Bootstrap ==
    /\ mainpc = "init"
    /\ nvml' = "init"
    /\ labels' = IdentityLabels
    /\ registered' = << "NVMLCollector", "ClaymoreCollector" >>
    /\ httpd' = (port # 0)
    /\ mainpc' = "loop"
    /\ UNCHANGED << gateway, port, device, flaky, worker, update_period, signal, entrypoint, pc, keys, stat, xchg, sock, out, hwfailed, exc,
                    delivery, exitcode, scrapes >>

\* A step of the start-up raises: nvmlInit itself, or a later call with the
\* binding already initialised (device handle, UUID, PCI info).
BootstrapFails ==
    /\ mainpc = "init"
    /\ \E stage \in {"nvmlInit", "device"} :
         nvml' = IF stage = "nvmlInit" THEN "uninit" ELSE "init"
    /\ mainpc' = "except"
    /\ UNCHANGED << gateway, port, device, flaky, worker, update_period, signal, entrypoint, httpd, registered, labels, pc, keys, stat,
                    xchg, sock, out, hwfailed, exc, delivery, exitcode, scrapes >>

\* The loop with the push made whether or not a gateway is configured.
LoopTop_always ==
    /\ mainpc = "loop"
    /\ mainpc' = "push"
    /\ StartPass("tick")
    /\ UNCHANGED << gateway, port, nvml, device, flaky, worker, update_period, signal, entrypoint,
                    httpd, registered, labels, delivery, exitcode, scrapes >>

\* while True: if args.gateway: push_to_gateway(...) starts with a registry pass
LoopTop ==
    /\ mainpc = "loop"
    /\ IF gateway
       THEN /\ mainpc' = "push"
            /\ StartPass("tick")
       ELSE /\ mainpc' = "sleep"
            /\ UNCHANGED << pc, keys, stat, xchg, sock, out, hwfailed, exc >>
    /\ UNCHANGED << gateway, port, nvml, device, flaky, worker, update_period, signal, entrypoint, httpd, registered, labels, delivery,
                    exitcode, scrapes >>

\* push_to_gateway sends the pass's output; a network error or a
\* non-success response makes it raise.
Deliver ==
    /\ mainpc = "push"
    /\ pc["tick"].c = "done"
    /\ \E ok \in BOOLEAN :
         /\ delivery' = IF ok THEN "ok" ELSE "failed"
         /\ mainpc' = IF ok THEN "sleep" ELSE "except"
    /\ EndPass("tick")
    /\ UNCHANGED << gateway, port, nvml, device, flaky, worker, update_period, signal, entrypoint, httpd, registered, labels,
                    exitcode, scrapes >>

\* time.sleep(args.update_period): a number is slept for, anything else
\* (a str) raises TypeError, which reaches the except clause of main().
Sleep ==
    /\ mainpc = "sleep"
    /\ mainpc' = IF SleepAccepts(update_period) THEN "loop" ELSE "except"
    /\ UNCHANGED << gateway, port, nvml, device, flaky, worker, update_period, signal, entrypoint,
                    httpd, registered, labels, pc, keys, stat, xchg, sock, out, hwfailed, exc,
                    delivery, exitcode, scrapes >>

\* except Exception as e: log.error(...)
Except ==
    /\ mainpc = "except"
    /\ mainpc' = "finally"
    /\ UNCHANGED << gateway, port, nvml, device, flaky, worker, update_period, signal, entrypoint, httpd, registered, labels, pc, keys,
                    stat, xchg, sock, out, hwfailed, exc, delivery, exitcode, scrapes >>

\* finally: nvmlShutdown().  On a binding that was never initialised
\* nvmlShutdown raises, and main() is left with that exception; after a
\* KeyboardInterrupt main() is left with the KeyboardInterrupt.
Finally ==
    /\ mainpc = "finally"
    /\ nvml' = IF nvml = "init" THEN "shutdown" ELSE nvml
    /\ mainpc' = IF nvml = "init" /\ signal = "none" THEN "return" ELSE "traceback"
    /\ UNCHANGED << gateway, port, device, flaky, worker, update_period, signal, entrypoint, httpd, registered, labels, pc, keys,
                    stat, xchg, sock, out, hwfailed, exc, delivery, exitcode, scrapes >>

\* main() is over and the process ends, taking the listener's daemon
\* thread with it: status 0 after a return, 1 after an uncaught exception.
Exit ==
    /\ mainpc \in {"return", "traceback"}
    /\ exitcode' = IF mainpc = "return" THEN 0 ELSE 1
    /\ httpd' = FALSE
    /\ mainpc' = "exit"
    /\ UNCHANGED << gateway, port, nvml, device, flaky, worker, update_period, signal, entrypoint, registered, labels, pc, keys,
                    stat, xchg, sock, out, hwfailed, exc, delivery, scrapes >>

\* The HTTP listener takes a scrape request and starts a registry pass.
ScrapeRequest ==
    /\ httpd
    /\ pc["scrape"].c = "idle"
    /\ scrapes < MaxScrapes
    /\ scrapes' = scrapes + 1
    /\ StartPass("scrape")
    /\ UNCHANGED << mainpc, gateway, port, nvml, device, flaky, worker, update_period, signal, entrypoint, httpd, registered, labels,
                    delivery, exitcode >>

\* The request handler is through: the pass's output was rendered and
\* sent, or the exception that left the pass was reported by the server.
ScrapeRespond ==
    /\ httpd
    /\ pc["scrape"].c \in {"done", "raised"}
    /\ EndPass("scrape")
    /\ UNCHANGED << mainpc, gateway, port, nvml, device, flaky, worker, update_period, signal, entrypoint, httpd, registered, labels,
                    delivery, exitcode, scrapes >>

\* The stack of thread t is unwound or lost: its pass and what it held are gone.
DropPass(t) ==
    [c |-> At("idle", 0), keys |-> <<>>, stat |-> <<>>, xchg |-> NoExchange, sock |-> FALSE,
     out |-> <<>>, hwfailed |-> {}, exc |-> "none"]

\* SIGINT: KeyboardInterrupt is raised in the main thread, wherever it is
\* inside the try of main().  It is not an Exception: neither the
\* collectors' except clauses nor main's catch it; the stack is unwound up
\* to main(), the finally clauses on its way run (getAPIStat closes its
\* socket, main calls nvmlShutdown).
Interrupt ==
    /\ mainpc \in {"init", "loop", "push", "sleep"}
    /\ signal = "none"
    /\ signal' = "SIGINT"
    /\ LET d == DropPass("tick") IN
         /\ pc' = [pc EXCEPT !["tick"] = d.c]
         /\ keys' = [keys EXCEPT !["tick"] = d.keys]
         /\ stat' = [stat EXCEPT !["tick"] = d.stat]
         /\ xchg' = [xchg EXCEPT !["tick"] = d.xchg]
         /\ sock' = [sock EXCEPT !["tick"] = d.sock]
         /\ out' = [out EXCEPT !["tick"] = d.out]
         /\ hwfailed' = [hwfailed EXCEPT !["tick"] = d.hwfailed]
         /\ exc' = [exc EXCEPT !["tick"] = d.exc]
    /\ mainpc' = "finally"
    /\ UNCHANGED << gateway, port, nvml, device, flaky, worker, update_period, entrypoint, httpd,
                    registered, labels, delivery, exitcode, scrapes >>

\* SIGTERM: no handler is installed, the process is ended at once with
\* status 128 + 15; no except or finally clause runs (nvmlShutdown is not
\* called), the threads are gone and the kernel closes the sockets.
Terminate ==
    /\ mainpc # "exit"
    /\ signal' = "SIGTERM"
    /\ pc' = [t \in Threads |-> DropPass(t).c]
    /\ keys' = [t \in Threads |-> DropPass(t).keys]
    /\ stat' = [t \in Threads |-> DropPass(t).stat]
    /\ xchg' = [t \in Threads |-> DropPass(t).xchg]
    /\ sock' = [t \in Threads |-> DropPass(t).sock]
    /\ out' = [t \in Threads |-> DropPass(t).out]
    /\ hwfailed' = [t \in Threads |-> DropPass(t).hwfailed]
    /\ exc' = [t \in Threads |-> DropPass(t).exc]
    /\ httpd' = FALSE
    /\ exitcode' = 143
    /\ mainpc' = "exit"
    /\ UNCHANGED << gateway, port, nvml, device, flaky, worker, update_period, entrypoint,
                    registered, labels, delivery, scrapes >>

----------------------------------------------------------------------------
(* Runs                                                                    *)

\* Both delivery modes are enabled: the push loop and the listener gather.
Both == gateway /\ port # 0

\* With one gathering thread a run meets every exchange, every query can
\* fail and the board is any of Devices.  With both threads gathering, a
\* run is explored for a worker that is down, silent or answers ResultA, and a
\* board whose queries fail only once the binding is shut down.
BothDevice == CHOOSE d \in Devices : d.power_usage = 123456

Init ==
    /\ mainpc = "init"
    /\ gateway \in BOOLEAN
    /\ port \in {0, 9100}
    /\ nvml = "uninit"
    /\ IF Both
       THEN /\ device = BothDevice
            /\ flaky = {}
            /\ worker = "restarting"
            /\ update_period = ParseUpdatePeriod(<<>>)
       ELSE /\ device \in Devices
            /\ flaky = Queries
            /\ worker = "any"
            /\ update_period \in {ParseUpdatePeriod(a) : a \in UpdatePeriodArgs}
    /\ signal = "none"
    /\ wpc = "off"
    /\ cpc = "none"
    /\ metadata = Unset
    /\ limit = 0
    /\ launched = <<>>
    /\ werr = "none"
    /\ httpd = FALSE
    /\ registered = <<>>
    /\ labels = <<>>
    /\ pc = [t \in Threads |-> At("idle", 0)]
    /\ keys = [t \in Threads |-> <<>>]
    /\ stat = [t \in Threads |-> <<>>]
    /\ xchg = [t \in Threads |-> NoExchange]
    /\ sock = [t \in Threads |-> FALSE]
    /\ out = [t \in Threads |-> <<>>]
    /\ hwfailed = [t \in Threads |-> {}]
    /\ exc = [t \in Threads |-> "none"]
    /\ delivery = "none"
    /\ exitcode = -1
    /\ scrapes = 0

Collect ==
    \E t \in Threads :
        \/ NvmlKeys(t)
        \/ NvmlAdd(t)
        \/ ClaymoreSocket(t)
        \/ ClaymoreApi(t)
        \/ ClaymoreBlocks(t)
        \/ ClaymoreVersion(t)
        \/ ClaymorePool(t)
        \/ ClaymoreKeys(t)
        \/ ClaymoreAdd(t)

Next ==
    \/ Bootstrap
    \/ BootstrapFails
    \/ LoopTop
    \/ Deliver
    \/ Sleep
    \/ Except
    \/ Finally
    \/ Exit
    \/ ScrapeRequest
    \/ ScrapeRespond
    \/ Collect
    \/ Interrupt
    \/ Terminate

\* Runs in which at most one thread gathers.
InitSingle == Init /\ ~Both

Spec == InitSingle /\ [][Next]_vars

\* The steps of the pass of thread t that the thread takes by itself.
Pass(t) ==
    \/ NvmlKeys(t)
    \/ NvmlAdd(t)
    \/ ClaymoreSocket(t)
    \/ ClaymoreApi(t)
    \/ ClaymoreVersion(t)
    \/ ClaymorePool(t)
    \/ ClaymoreKeys(t)
    \/ ClaymoreAdd(t)

\* Runs with one gathering thread in which a thread that can take a step
\* of its pass is scheduled: the interpreter switches threads and a
\* system call that can return does return.
SpecFair == InitSingle /\ [][Next]_vars /\ \A t \in Threads : WF_vars(Pass(t))

\* Runs in which the push loop and the listener both gather.
InitBoth == Init /\ Both

SpecBoth == InitBoth /\ [][Next]_vars

TypeOK ==
    /\ mainpc \in {"off", "init", "loop", "push", "sleep", "except", "finally", "return",
                   "traceback", "exit"}
    /\ nvml \in {"uninit", "init", "shutdown"}
    /\ delivery \in {"none", "ok", "failed"}
    /\ \A t \in Threads : Len(out[t]) <= Len(NvmlMetrics) + Len(ClaymoreMetrics)

----------------------------------------------------------------------------
(* The wrapper entrypoint (resources/docker-entrypoint.py)                 *)

\* s.split(sep): the part in front of the first sep, and the last part.
FirstPart(s, sep) ==
    IF \E i \in 1..Len(s) : s[i] = sep
    THEN SubSeq(s, 1, (CHOOSE i \in 1..Len(s) : s[i] = sep /\ \A j \in 1..(i - 1) : s[j] # sep) - 1)
    ELSE s

LastPart(s, sep) ==
    IF \E i \in 1..Len(s) : s[i] = sep
    THEN SubSeq(s, (CHOOSE i \in 1..Len(s) : s[i] = sep /\ \A j \in (i + 1)..Len(s) : s[j] # sep) + 1,
                Len(s))
    ELSE s

\* int(s) on decimal ASCII: a value (DecVal), or ValueError.
IntOk(s) == Len(s) > 0 /\ \A i \in 1..Len(s) : IsDigit(s[i])

\* d[k], for a key the dict has
DictGet(d, k) == d[CHOOSE i \in 1..Len(d) : d[i][1] = k][2]

\* gpu_uuid_short = gpu_uuid.split('-')[-1]
gpu_uuid_short == LastPart(GpuUuid, "-")

\* key = "coolbits-%s" % gpu_uuid_short
CoolbitsKey == <<"c", "o", "o", "l", "b", "i", "t", "s", "-">> \o gpu_uuid_short

\* What main() can hold in metadata once getHostMetadata() has returned:
\* None, or the decoded JSON object, with or without 'labels'.
MetaNone == [fetched |-> TRUE, none |-> TRUE, hasLabels |-> FALSE, labels |-> <<>>]

MetaObject(hasLabels, labelsDict) ==
    [fetched |-> TRUE, none |-> FALSE, hasLabels |-> hasLabels, labels |-> labelsDict]

\* Host labels: none for this GPU, a power limit for it ("mW,..."), a
\* value that is no number.
HostLabels ==
    { << << <<"z", "o", "n", "e">>, <<"a">> >> >>,
      << << CoolbitsKey, <<"1", "2", "0", "0", "0", "0", ",", "1", "5", "0">> >> >>,
      << << CoolbitsKey, <<"m", "a", "x">> >> >> }

\* How the request to the metadata service ends: a socket.error (in
\* resp.read()), an URLError of urlopen (the service is not there), or a
\* JSON object.
Fetches ==
    {[err |-> e, body |-> Unset] : e \in {"socket.error", "URLError"}}
    \cup {[err |-> "none", body |-> MetaObject(FALSE, <<>>)]}
    \cup {[err |-> "none", body |-> MetaObject(TRUE, l)] : l \in HostLabels}

\* getHostMetadata(): only socket.error is caught (and None returned).
getHostMetadata(f) ==
    IF f.err = "socket.error" THEN [raised |-> "none", ret |-> MetaNone]
    ELSE IF f.err # "none" THEN [raised |-> f.err, ret |-> Unset]
    ELSE [raised |-> "none", ret |-> f.body]

\* The variables of the exporter's own main(), which the wrapper does not run.
monitor == << mainpc, device, flaky, worker, httpd, registered, labels, pc, keys, stat, xchg,
              sock, out, hwfailed, exc, delivery, exitcode, scrapes, signal >>

\* An exception reaches "except Exception" of the parent's main().
EntryRaise(e) ==
    /\ wpc' = "except"
    /\ werr' = e

\* nvmlInit ... gpu_uuid_short: the binding is initialised and device 0 is there.
EntryInit ==
    /\ wpc = "init"
    /\ nvml' = "init"
    /\ wpc' = "metadata"
    /\ UNCHANGED << monitor, gateway, port, update_period, cpc, metadata, limit, launched, werr >>

\* nvmlInit or a device lookup raises NVMLError.
EntryInitFails ==
    /\ wpc = "init"
    /\ \E stage \in {"nvmlInit", "device"} :
         nvml' = IF stage = "nvmlInit" THEN "uninit" ELSE "init"
    /\ EntryRaise("NVMLError")
    /\ UNCHANGED << monitor, gateway, port, update_period, cpc, metadata, limit, launched >>

\* metadata = getHostMetadata()
EntryMetadata ==
    /\ wpc = "metadata"
    /\ \E f \in Fetches :
         LET r == getHostMetadata(f) IN
           IF r.raised # "none"
           THEN EntryRaise(r.raised) /\ UNCHANGED metadata
           ELSE metadata' = r.ret /\ wpc' = "coolbits" /\ UNCHANGED werr
    /\ UNCHANGED << monitor, gateway, port, update_period, nvml, cpc, limit, launched >>

\* if key in metadata['labels']: coolbits = ...split(','); mW = int(coolbits[0]);
\* nvmlDeviceSetPowerManagementLimit(nvml_device, mW)
EntryCoolbits ==
    /\ wpc = "coolbits"
    /\ IF metadata.none
       THEN EntryRaise("TypeError") /\ UNCHANGED limit
       ELSE IF ~metadata.hasLabels
       THEN EntryRaise("KeyError") /\ UNCHANGED limit
       ELSE IF ~DictHas(metadata.labels, CoolbitsKey)
       THEN wpc' = "fork" /\ UNCHANGED << limit, werr >>
       ELSE LET first == FirstPart(DictGet(metadata.labels, CoolbitsKey), ",") IN
              IF IntOk(first)
              THEN limit' = DecVal(first) /\ wpc' = "fork" /\ UNCHANGED werr
              ELSE EntryRaise("ValueError") /\ UNCHANGED limit
    /\ UNCHANGED << monitor, gateway, port, update_period, nvml, cpc, metadata, launched >>

\* pid = os.fork(): the child starts in collect(), the parent goes on;
\* or fork fails with OSError.
EntryFork ==
    /\ wpc = "fork"
    /\ \/ cpc' = "collect" /\ wpc' = "launch" /\ UNCHANGED werr
       \/ EntryRaise("OSError") /\ UNCHANGED cpc
    /\ UNCHANGED << monitor, gateway, port, update_period, nvml, metadata, limit, launched >>

\* Miner.launch(args, metadata, gpu_uuid_short), called by the parent
EntryLaunch ==
    /\ wpc = "launch"
    /\ launched' = Append(launched, "parent")
    /\ wpc' = "miner"
    /\ UNCHANGED << monitor, gateway, port, update_period, nvml, cpc, metadata, limit, werr >>

\* Miner.launch returns, or raises.
EntryMinerEnds ==
    /\ wpc = "miner"
    /\ \/ wpc' = "finally" /\ UNCHANGED werr
       \/ EntryRaise("MinerError")
    /\ UNCHANGED << monitor, gateway, port, update_period, nvml, cpc, metadata, limit, launched >>

\* except Exception as e: log.error(...)
EntryExcept ==
    /\ wpc = "except"
    /\ wpc' = "finally"
    /\ UNCHANGED << monitor, gateway, port, update_period, nvml, cpc, metadata, limit, launched, werr >>

\* finally: nvmlShutdown(), and the parent ends.
EntryFinally ==
    /\ wpc = "finally"
    /\ nvml' = IF nvml = "init" THEN "shutdown" ELSE nvml
    /\ wpc' = "exit"
    /\ UNCHANGED << monitor, gateway, port, update_period, cpc, metadata, limit, launched, werr >>

\* The child in collect(): nvmlInit, the labels, the two register calls and
\* the listener, all of which succeed, or one of which raises.
ChildCollect ==
    /\ cpc = "collect"
    /\ cpc' \in {"loop", "except"}
    /\ UNCHANGED << monitor, gateway, port, update_period, nvml, wpc, metadata, limit, launched, werr >>

\* The child's "while True": the push, if a gateway is set, succeeds or raises.
ChildLoop ==
    /\ cpc = "loop"
    /\ IF gateway THEN cpc' \in {"sleep", "except"} ELSE cpc' = "sleep"
    /\ UNCHANGED << monitor, gateway, port, update_period, nvml, wpc, metadata, limit, launched, werr >>

\* The child's time.sleep(args.update_period)
ChildSleep ==
    /\ cpc = "sleep"
    /\ cpc' = IF SleepAccepts(update_period) THEN "loop" ELSE "except"
    /\ UNCHANGED << monitor, gateway, port, update_period, nvml, wpc, metadata, limit, launched, werr >>

\* collect() has no try: its exception reaches main()'s except clause in
\* the child, past the call of Miner.launch; then the finally, and the child ends.
ChildExcept ==
    /\ cpc = "except"
    /\ cpc' = "finally"
    /\ UNCHANGED << monitor, gateway, port, update_period, nvml, wpc, metadata, limit, launched, werr >>

ChildFinally ==
    /\ cpc = "finally"
    /\ cpc' = "exit"
    /\ UNCHANGED << monitor, gateway, port, update_period, nvml, wpc, metadata, limit, launched, werr >>

InitEntry ==
    /\ mainpc = "off"
    /\ gateway \in BOOLEAN
    /\ port \in {0, 9100}
    /\ update_period \in {ParseUpdatePeriod(a) : a \in UpdatePeriodArgs}
    /\ nvml = "uninit"
    /\ device = BothDevice
    /\ flaky = {}
    /\ worker = "restarting"
    /\ httpd = FALSE
    /\ registered = <<>>
    /\ labels = <<>>
    /\ pc = [t \in Threads |-> At("idle", 0)]
    /\ keys = [t \in Threads |-> <<>>]
    /\ stat = [t \in Threads |-> <<>>]
    /\ xchg = [t \in Threads |-> NoExchange]
    /\ sock = [t \in Threads |-> FALSE]
    /\ out = [t \in Threads |-> <<>>]
    /\ hwfailed = [t \in Threads |-> {}]
    /\ exc = [t \in Threads |-> "none"]
    /\ delivery = "none"
    /\ exitcode = -1
    /\ scrapes = 0
    /\ signal = "none"
    /\ wpc = "init"
    /\ cpc = "none"
    /\ metadata = Unset
    /\ limit = 0
    /\ launched = <<>>
    /\ werr = "none"

NextEntry ==
    \/ EntryInit
    \/ EntryInitFails
    \/ EntryMetadata
    \/ EntryCoolbits
    \/ EntryFork
    \/ EntryLaunch
    \/ EntryMinerEnds
    \/ EntryExcept
    \/ EntryFinally
    \/ ChildCollect
    \/ ChildLoop
    \/ ChildSleep
    \/ ChildExcept
    \/ ChildFinally

\* Runs of the wrapper entrypoint.
SpecEntry == InitEntry /\ [][NextEntry]_vars

----------------------------------------------------------------------------
(* Vocabulary of the properties                                            *)

\* The lifecycle state main() is in.
Phase ==
    IF mainpc = "init" THEN "INIT"
    ELSE IF mainpc \in {"loop", "push", "sleep"} THEN "RUNNING"
    ELSE "SHUTDOWN"

NvmlNames == {NvmlMetrics[i].name : i \in 1..Len(NvmlMetrics)}

ClaymoreNames == {ClaymoreMetrics[i].name : i \in 1..Len(ClaymoreMetrics)}

\* The families of the pass of t that come from the device / the worker collector.
NvmlFamilies(t) == SelectSeq(out[t], LAMBDA f : f.name \in NvmlNames)

WorkerFamilies(t) == SelectSeq(out[t], LAMBDA f : f.name \in ClaymoreNames)

Yielded(t, name) == \E i \in 1..Len(out[t]) : out[t][i].name = name

\* The label set of a sample, as name/value pairs.
LabelPairs(f) ==
    {<< f.labelnames[k], f.labelvalues[k] >> :
        k \in 1..(IF Len(f.labelnames) < Len(f.labelvalues)
                  THEN Len(f.labelnames) ELSE Len(f.labelvalues))}

\* All ';'-separated parts of a text.
Parts(s) == Split(s, Len(s))

\* The numeric sub-field <<index, part>> of result array r is there and is decimal.
NumericOk(r, p) ==
    /\ Len(r) > p[1]
    /\ Len(Parts(r[p[1] + 1])) >= p[2]
    /\ FloatOk(Parts(r[p[1] + 1])[p[2]])

\* A well-formed 9-element response: uptime is a number, eth shares are
\* three numbers, temp;fan two, pools at least one part, events four parts
\* of which the first two are numbers.
WellFormed(r) ==
    /\ Len(r) = 9
    /\ Len(Parts(r[3])) = 3
    /\ Len(Parts(r[7])) = 2
    /\ Len(Parts(r[9])) = 4
    /\ \A p \in NumericParts : NumericOk(r, p)

\* The pass of t has received a JSON object with a result array.
GotResult(t) == xchg[t].conn = "ok" /\ xchg[t].kind = "object" /\ xchg[t].hasResult

----------------------------------------------------------------------------
(* Properties                                                              *)

\* C1: a registry pass never raises, whatever happens inside the worker or
\* the device collector: no exception leaves a pass, a pass that is over
\* holds every device family when no hardware query failed, and the
\* process is still RUNNING.
C1_GatherNeverRaises ==
    \A t \in Threads :
        /\ exc[t] = "none"
        /\ pc[t].c # "raised"
        /\ pc[t].c = "done" /\ hwfailed[t] = {} => \A n \in NvmlNames : Yielded(t, n)
        /\ pc[t].c # "idle" => Phase = "RUNNING"

\* C2: worker parsing is all-or-nothing: a received result array with
\* fewer than 9 elements, or with a non-numeric numeric sub-field, yields
\* zero worker samples in that cycle and no exception leaves the collector.
C2_AllOrNothing ==
    \A t \in Threads :
        ( /\ GotResult(t)
          /\ \/ Len(xchg[t].result) < 9
             \/ \E p \in NumericParts : ~NumericOk(xchg[t].result, p) )
        => /\ exc[t] = "none"
           /\ WorkerFamilies(t) = <<>>

\* C3: a failed push delivery is recoverable: after it the process is
\* still RUNNING and the hardware binding is still held, so that the loop
\* goes on to the next tick.
C3_PushFailureRecoverable ==
    delivery = "failed" => Phase = "RUNNING" /\ nvml = "init"

\* C4: bytes from the worker that are not a JSON object carrying a result
\* array are a parse failure inside the worker collector: its collect()
\* ends without raising and with zero samples.
C4_MalformedIsParseFailure ==
    \A t \in Threads :
        (xchg[t].conn = "ok" /\ ~GotResult(t))
        => /\ exc[t] = "none"
           /\ pc[t].c = "done"
           /\ WorkerFamilies(t) = <<>>

\* C5: the identity label set is shared read-only: every hardware sample
\* carries exactly gpu_uuid and pci_bus_id with the start-up values, never
\* version or eth_pool_current.
C5_IdentityLabelsOnly ==
    \A t \in Threads : \A i \in 1..Len(out[t]) :
        out[t][i].name \in NvmlNames
        => /\ out[t][i].labelnames = << "gpu_uuid", "pci_bus_id" >>
           /\ out[t][i].labelvalues = << GpuUuid, PciBusId >>

\* C6: gather() is reentrant: whatever the interleaving of a scrape pass
\* and a tick pass, every emitted sample has as many label values as its
\* family has label names, each value being the dict's value of its name
\* when the family was built or when the sample was added.
C6_Reentrant ==
    \A t \in Threads : \A i \in 1..Len(out[t]) :
        Len(out[t][i].labelvalues) = Len(out[t][i].labelnames)

\* C7: the hardware queries are independent: once the device collector of
\* a pass is through, every family whose query did not fail was yielded.
C7_QueriesIndependent ==
    \A t \in Threads :
        pc[t].c \in {"api", "version", "pool", "clay_keys", "clay_add", "done"}
        => \A i \in 1..Len(NvmlMetrics) :
             NvmlMetrics[i].query \notin hwfailed[t] => Yielded(t, NvmlMetrics[i].name)

\* The device families a pass holds when its device collector is through:
\* those in front of the first failed query, labelled with the dict.
NvmlExpected(t) ==
    LET failed == {i \in 1..Len(NvmlMetrics) : NvmlMetrics[i].query \in hwfailed[t]}
        n == IF failed = {} THEN Len(NvmlMetrics)
             ELSE (CHOOSE i \in failed : \A j \in failed : i <= j) - 1
    IN [i \in 1..n |-> Family(NvmlMetrics[i].name, "gauge", DictKeys(labels),
                              DictValues(labels), NvmlValue(i, device))]

\* C8: a connection failure to the worker yields zero worker samples, does
\* not raise, and leaves the hardware samples of the same pass as they are
\* for every pass when its worker exchange begins.
C8_ConnectionFailure ==
    \A t \in Threads :
        /\ pc[t].c = "api" => out[t] = NvmlExpected(t)
        /\ xchg[t].conn \in SocketErrors
           => /\ exc[t] = "none"
              /\ pc[t].c = "done"
              /\ WorkerFamilies(t) = <<>>
              /\ out[t] = NvmlExpected(t)

\* A pass met a refused connection after all eight device families.
C8_Witness ==
    \E t \in Threads :
        /\ xchg[t].conn = "refused"
        /\ pc[t].c = "done"
        /\ Len(out[t]) = Len(NvmlMetrics)

\* C9: the version and eth_pool_current labels change only with a
\* successful parse: no step of a pass whose exchange failed to connect or
\* brought a response that is not well-formed changes the labels dict.
C9_LabelsOnlyFromGoodParse ==
    [][ \A t \in Threads :
          ( /\ xchg[t] # NoExchange
            /\ ~(GotResult(t) /\ WellFormed(xchg[t].result))
            /\ pc'[t] # pc[t] )
          => labels' = labels ]_vars

Sample(name, kind, text) ==
    [name |-> name, kind |-> kind, value |-> [num |-> DecVal(text), den |-> 1]]

\* The eight samples of a well-formed result array r.
WorkerSamples(r) ==
    { Sample("claymore_uptime_minutes", "counter", r[2]),
      Sample("claymore_eth_shares_accepted", "counter", Parts(r[3])[2]),
      Sample("claymore_eth_shares_rejected", "counter", Parts(r[3])[3]),
      Sample("claymore_eth_shares_invalid", "counter", Parts(r[9])[1]),
      Sample("claymore_eth_pool_switches", "counter", Parts(r[9])[2]),
      Sample("claymore_eth_hashrate_total_mhs", "gauge", Parts(r[3])[1]),
      Sample("claymore_gpu_temperature_c", "gauge", Parts(r[7])[1]),
      Sample("claymore_fan_speed_percent", "gauge", Parts(r[7])[2]) }

\* The label set of the samples of a well-formed result array r.
WorkerLabels(r) ==
    { << "gpu_uuid", GpuUuid >>, << "pci_bus_id", PciBusId >>,
      << "version", r[1] >>, << "eth_pool_current", Parts(r[8])[1] >> }

C11_ExchangeCompletes ==
    \A t \in Threads :
        (pc[t].c = "exchange" /\ Running(t))
        ~> (pc[t].c \notin {"exchange", "blocked"} \/ ~Running(t))

\* C12: the worker socket is scoped to one exchange: an exchange begins
\* with no socket of an earlier one and opens its own, and whenever the
\* pass is anywhere but inside the exchange (gone on, over, or left by an
\* exception) the socket is closed.
C12_SocketScoped ==
    [][ \A t \in Threads :
          /\ pc[t].c \notin {"exchange", "blocked"} => ~sock[t]
          /\ pc'[t].c \notin {"exchange", "blocked"} => ~sock'[t]
          /\ (pc[t].c = "api" /\ pc'[t].c = "exchange") => (~sock[t] /\ sock'[t]) ]_vars

\* A pass was left by the ValueError of json.loads and its socket is closed.
C12_Witness ==
    \E t \in Threads :
        /\ pc[t].c = "raised"
        /\ exc[t] = "ValueError"
        /\ xchg[t].kind = "truncated"
        /\ ~sock[t]

\* The declared label schemas: identity, and identity with the worker labels.
Schemas ==
    { {"gpu_uuid", "pci_bus_id"},
      {"gpu_uuid", "pci_bus_id", "version", "eth_pool_current"} }

LabelNames(f) == {f.labelnames[k] : k \in 1..Len(f.labelnames)}

\* C13: in every registry pass every emitted sample carries a non-empty
\* label set that is one of the declared schemas (never identity with one
\* of the two worker labels only), and no two samples of a pass have the
\* same name with the same label set.
C13_LabelSchemas ==
    \A t \in Threads : \A i \in 1..Len(out[t]) :
        /\ LabelNames(out[t][i]) # {}
        /\ LabelNames(out[t][i]) \in Schemas
        /\ \A j \in 1..Len(out[t]) :
              (j # i /\ out[t][j].name = out[t][i].name)
              => LabelPairs(out[t][j]) # LabelPairs(out[t][i])

\* C14: the device collector never raises past its own boundary: after a
\* failed hardware query the pass is no longer inside the device collector
\* and was not left by an exception of it (a pass is left by an exception
\* only from the worker exchange); when the first query fails, the pass
\* holds no device sample.
C14_DeviceCollectorContained ==
    \A t \in Threads :
        /\ hwfailed[t] # {} => pc[t].c \notin {"nvml_keys", "nvml_add"}
        /\ pc[t].c = "raised" => (xchg[t] # NoExchange /\ exc[t] \notin {"none", "NVMLError"})
        /\ NvmlMetrics[1].query \in hwfailed[t] => NvmlFamilies(t) = <<>>

\* A pass whose first hardware query failed is over, holding no device sample.
C14_Witness ==
    \E t \in Threads :
        /\ NvmlMetrics[1].query \in hwfailed[t]
        /\ pc[t].c = "done"
        /\ exc[t] = "none"
        /\ NvmlFamilies(t) = <<>>

\* The value a/b as a sample value.
Ratio(a, b) == [num |-> a, den |-> b]

\* The value v is the decimal whole.thousandths (123.456 is Decimal3(v, 123, 456)).
Decimal3(v, whole, thousandths) ==
    /\ v.num \div v.den = whole
    /\ ((v.num % v.den) * 1000) \div v.den = thousandths
    /\ ((v.num % v.den) * 1000) % v.den = 0

\* C16: when no hardware query of a pass failed, its device collector has
\* yielded exactly eight gauge samples, each name once: the two clocks in
\* Hz (MHz times 1000000), temperature, fan speed, power draw in watts
\* (milliwatts divided by 1000: 123456 is 123.456), power state, total and
\* used memory.
C16_EightGauges ==
    \A t \in Threads :
        (hwfailed[t] = {} /\ pc[t].c \notin {"idle", "nvml_keys", "nvml_add"})
        => LET n == NvmlFamilies(t) IN
             /\ [i \in 1..Len(n) |-> << n[i].name, n[i].kind, n[i].value >>] =
                  << << "nvml_clock_gpu_hz", "gauge", Ratio(device.clock_graphics * 1000000, 1) >>,
                     << "nvml_clock_mem_hz", "gauge", Ratio(device.clock_mem * 1000000, 1) >>,
                     << "nvml_gpu_temperature_c", "gauge", Ratio(device.temperature, 1) >>,
                     << "nvml_fan_speed_percent", "gauge", Ratio(device.fan_speed, 1) >>,
                     << "nvml_power_draw_watt", "gauge", Ratio(device.power_usage, 1000) >>,
                     << "nvml_power_state", "gauge", Ratio(device.power_state, 1) >>,
                     << "nvml_memory_total_bytes", "gauge", Ratio(device.mem_total, 1) >>,
                     << "nvml_memory_used_bytes", "gauge", Ratio(device.mem_used, 1) >> >>
             /\ device.power_usage = 123456 => Decimal3(n[5].value, 123, 456)
             /\ \A i \in 1..Len(out[t]) :
                  out[t][i].name \notin ClaymoreNames => out[t][i].name \in NvmlNames

\* A pass has read 123456 milliwatts and all eight device samples are out.
C16_Witness ==
    \E t \in Threads :
        /\ hwfailed[t] = {}
        /\ device.power_usage = 123456
        /\ Len(NvmlFamilies(t)) = 8
        /\ Decimal3(NvmlFamilies(t)[5].value, 123, 456)

\* The step is a hardware query of the pass of t: the binding call of the
\* family at hand, made by NvmlKeys or by NvmlAdd.
HardwareQuery(t) ==
    /\ pc[t].c \in {"nvml_keys", "nvml_add"}
    /\ NvmlMetrics[pc[t].i].at = (IF pc[t].c = "nvml_keys" THEN "keys" ELSE "add")
    /\ pc'[t] # pc[t]
    /\ pc'[t].c # "idle"

\* The step is the exchange of the pass of t with the worker.
WorkerQuery(t) ==
    /\ pc[t].c = "exchange"
    /\ pc'[t] # pc[t]
    /\ pc'[t].c # "idle"

\* C15: the lifecycle is INIT -> RUNNING -> SHUTDOWN and SHUTDOWN is
\* terminal; whenever the process has ended, the hardware binding is not
\* held any more (nvmlShutdown was called if nvmlInit was); and once
\* SHUTDOWN has begun no pass, a scrape served by the listener included,
\* queries the hardware or the worker.
C15_Lifecycle ==
    [][ /\ Phase = "SHUTDOWN" => Phase' = "SHUTDOWN"
        /\ Phase' = "INIT" => Phase = "INIT"
        /\ mainpc' = "exit" => nvml' # "init"
        /\ Phase = "SHUTDOWN" => \A t \in Threads : ~HardwareQuery(t) /\ ~WorkerQuery(t) ]_vars

\* main() left INIT by an exception of the start-up: no collector is registered.
StartupFailed == Phase = "SHUTDOWN" /\ registered = <<>> /\ signal = "none"

\* C17: after a fatal start-up failure the process never enters RUNNING (no
\* collector is registered, no pass, no push), and when it has ended the
\* binding is not held and the exit status is not zero.
C17_StartupFailure ==
    [][ /\ StartupFailed
           => /\ Phase' = "SHUTDOWN"
              /\ registered' = <<>>
              /\ delivery' = "none"
              /\ pc' = pc
        /\ (StartupFailed' /\ mainpc' = "exit")
           => /\ nvml' # "init"
              /\ exitcode' # 0 ]_vars

C19_SleepThenTick ==
    [][ (mainpc = "sleep" /\ signal' = signal)
        => (mainpc' \in {"sleep", "loop"} /\ Phase' = "RUNNING") ]_vars

\* C20: in the wrapper, missing host metadata is handled: once the parent
\* is past its try with metadata None (and neither fork nor the miner
\* failed), it has forked the collector child and launched the miner, with
\* no power limit set; and in every run the miner is launched at most
\* once, by the parent, never by the child.
C20_MetadataOptional ==
    /\ (metadata.none /\ wpc \in {"except", "finally", "exit"} /\ werr \notin {"OSError", "MinerError"})
       => /\ cpc # "none"
          /\ launched = << "parent" >>
          /\ limit = 0
          /\ werr = "none"
    /\ Len(launched) <= 1
    /\ \A i \in 1..Len(launched) : launched[i] = "parent"

====
